---- MODULE Spec2Model ----
(***************************************************************************)
(* Model of impolite, a greetd greeter (src/src/main.rs, src/src/greetd.rs)*)
(*                                                                         *)
(* The program is a mana_tui_potion application: `init` builds the Model   *)
(* and spawns greetd_task; `update` folds one Msg at a time into the Model;*)
(* `view` attaches the key handlers that turn key presses into Msgs.       *)
(* greetd_task owns the socket: it takes Requests from the flume channel   *)
(* req_rx and writes them, and it decodes Responses and sends them to      *)
(* update as Msg::GreetdRes.                                               *)
(***************************************************************************)
EXTENDS Naturals, Sequences, FiniteSets, TLC

(***************************************************************************)
(* Bounds of the model.                                                    *)
(***************************************************************************)
\* number of inputs in one run: SubmitLogin and StartShell key presses plus
\* Response frames sent by the daemon
MaxInputs == 4
\* number of Response frames between the daemon and update at one time
MaxPipe == 1

(***************************************************************************)
(* Values.                                                                 *)
(***************************************************************************)
Usernames == {"", "Bingus"}
Passwords == {"", "1234"}
Descriptions == {"bad password"}
Prompts == {"Password:"}

AuthMessageType == {"Visible", "Secret", "Info", "Error"}
ErrorType == {"AuthError", "Error"}

\* enum Response
Success == [type |-> "success"]
Error(error_type, description) ==
    [type |-> "error", error_type |-> error_type, description |-> description]
AuthMessage(auth_message_type, auth_message) ==
    [type |-> "auth_message", auth_message_type |-> auth_message_type,
     auth_message |-> auth_message]
Response ==
    {Success}
    \cup {Error(e, d) : e \in ErrorType, d \in Descriptions}
    \cup {AuthMessage(k, m) : k \in AuthMessageType, m \in Prompts}

\* what the socket can hold besides Response frames.  Junk is a frame whose
\* payload is no Response (greetd_decode_impl returns Err).  Torn is what is
\* left of a frame after a greetd_decode future that had read its first
\* bytes was dropped: the stream is inside a frame, and the next
\* greetd_decode takes four bytes of it for a length
Junk == [type |-> "junk"]
Torn == [type |-> "torn"]
Frames == Response \cup {Junk}

\* enum Request
CreateSession(username) == [type |-> "create_session", username |-> username]
PostAuthMessageResponse(response) ==
    [type |-> "post_auth_message_response", response |-> response]
StartSession(command, env) ==
    [type |-> "start_session", command |-> command, env |-> env]
CancelSession == [type |-> "cancel_session"]

\* Option<T>: None is the empty sequence, Some(x) is <<x>>
None == <<>>
Some(x) == <<x>>

\* enum FormState
Idle == [tag |-> "Idle"]
CreatedSession == [tag |-> "CreatedSession"]
LoginFailed(error_type, description) ==
    [tag |-> "LoginFailed", error_type |-> error_type, description |-> description]
PickingDesktop == [tag |-> "PickingDesktop"]

\* enum Focus
Focus == {"UsernameField", "PasswordField", "DesktopPicker"}

\* enum Msg, as far as greetd_task and the effects send it
MsgQuit == [msg |-> "Quit"]
MsgError == [msg |-> "Error"]
MsgGreetdRes(res) == [msg |-> "GreetdRes", res |-> res]

(***************************************************************************)
(* FormState::update: the match of main.rs:138-172, arm by arm, in order.  *)
(* The result is the pair of the code (state, effect); panics marks the    *)
(* arm whose body is todo!().                                              *)
(***************************************************************************)
\* FormState::update with the Success arm of CreatedSession answering with
\* the password at once, as if Success were the prompt
FormStateUpdate_SendOnSuccess(self, res) ==
    IF self.tag = "Idle"
    THEN [state |-> Idle, effect |-> "None", panics |-> FALSE]
    ELSE IF self.tag = "CreatedSession" /\ res.type = "success"
    THEN [state |-> CreatedSession, effect |-> "SendPassword", panics |-> FALSE]
    ELSE IF self.tag = "CreatedSession" /\ res.type = "error"
    THEN [state |-> LoginFailed(res.error_type, res.description),
          effect |-> "None", panics |-> FALSE]
    ELSE IF self.tag = "CreatedSession" /\ res.type = "auth_message"
            /\ res.auth_message_type = "Secret"
    THEN [state |-> CreatedSession, effect |-> "SendPassword", panics |-> FALSE]
    ELSE IF self.tag = "CreatedSession" /\ res.type = "auth_message"
    THEN [state |-> CreatedSession, effect |-> "None", panics |-> FALSE]
    ELSE IF self.tag = "LoginFailed" /\ res.type = "success"
    THEN [state |-> PickingDesktop, effect |-> "None", panics |-> FALSE]
    ELSE IF self.tag = "LoginFailed"
    THEN [state |-> self, effect |-> "None", panics |-> TRUE]
    ELSE IF res.type = "error"
    THEN [state |-> LoginFailed(res.error_type, res.description),
          effect |-> "None", panics |-> FALSE]
    ELSE [state |-> PickingDesktop, effect |-> "None", panics |-> FALSE]

\* FormState::update without the (_, Error) arm: PickingDesktop keeps every
\* Response
FormStateUpdate_NoErrorArm(self, res) ==
    IF self.tag = "Idle"
    THEN [state |-> Idle, effect |-> "None", panics |-> FALSE]
    ELSE IF self.tag = "CreatedSession" /\ res.type = "success"
    THEN [state |-> PickingDesktop, effect |-> "FocusDesktopPicker", panics |-> FALSE]
    ELSE IF self.tag = "CreatedSession" /\ res.type = "error"
    THEN [state |-> LoginFailed(res.error_type, res.description),
          effect |-> "None", panics |-> FALSE]
    ELSE IF self.tag = "CreatedSession" /\ res.type = "auth_message"
            /\ res.auth_message_type = "Secret"
    THEN [state |-> CreatedSession, effect |-> "SendPassword", panics |-> FALSE]
    ELSE IF self.tag = "CreatedSession" /\ res.type = "auth_message"
    THEN [state |-> CreatedSession, effect |-> "None", panics |-> FALSE]
    ELSE IF self.tag = "LoginFailed" /\ res.type = "success"
    THEN [state |-> PickingDesktop, effect |-> "None", panics |-> FALSE]
    ELSE IF self.tag = "LoginFailed"
    THEN [state |-> self, effect |-> "None", panics |-> TRUE]
    ELSE [state |-> PickingDesktop, effect |-> "None", panics |-> FALSE]

\* FormState::update with the Success arm of PickingDesktop falling back to
\* Idle
FormStateUpdate_PickingToIdle(self, res) ==
    IF self.tag = "Idle"
    THEN [state |-> Idle, effect |-> "None", panics |-> FALSE]
    ELSE IF self.tag = "CreatedSession" /\ res.type = "success"
    THEN [state |-> PickingDesktop, effect |-> "FocusDesktopPicker", panics |-> FALSE]
    ELSE IF self.tag = "CreatedSession" /\ res.type = "error"
    THEN [state |-> LoginFailed(res.error_type, res.description),
          effect |-> "None", panics |-> FALSE]
    ELSE IF self.tag = "CreatedSession" /\ res.type = "auth_message"
            /\ res.auth_message_type = "Secret"
    THEN [state |-> CreatedSession, effect |-> "SendPassword", panics |-> FALSE]
    ELSE IF self.tag = "CreatedSession" /\ res.type = "auth_message"
    THEN [state |-> CreatedSession, effect |-> "None", panics |-> FALSE]
    ELSE IF self.tag = "LoginFailed" /\ res.type = "success"
    THEN [state |-> PickingDesktop, effect |-> "None", panics |-> FALSE]
    ELSE IF self.tag = "LoginFailed"
    THEN [state |-> self, effect |-> "None", panics |-> TRUE]
    ELSE IF res.type = "error"
    THEN [state |-> LoginFailed(res.error_type, res.description),
          effect |-> "None", panics |-> FALSE]
    ELSE [state |-> Idle, effect |-> "None", panics |-> FALSE]

\* FormState::update without the (Idle, _) arm: Idle falls through to the
\* arms below
FormStateUpdate_NoIdleArm(self, res) ==
    IF self.tag = "CreatedSession" /\ res.type = "success"
    THEN [state |-> PickingDesktop, effect |-> "FocusDesktopPicker", panics |-> FALSE]
    ELSE IF self.tag = "CreatedSession" /\ res.type = "error"
    THEN [state |-> LoginFailed(res.error_type, res.description),
          effect |-> "None", panics |-> FALSE]
    ELSE IF self.tag = "CreatedSession" /\ res.type = "auth_message"
            /\ res.auth_message_type = "Secret"
    THEN [state |-> CreatedSession, effect |-> "SendPassword", panics |-> FALSE]
    ELSE IF self.tag = "CreatedSession" /\ res.type = "auth_message"
    THEN [state |-> CreatedSession, effect |-> "None", panics |-> FALSE]
    ELSE IF self.tag = "LoginFailed" /\ res.type = "success"
    THEN [state |-> PickingDesktop, effect |-> "None", panics |-> FALSE]
    ELSE IF self.tag = "LoginFailed"
    THEN [state |-> self, effect |-> "None", panics |-> TRUE]
    ELSE IF res.type = "error"
    THEN [state |-> LoginFailed(res.error_type, res.description),
          effect |-> "None", panics |-> FALSE]
    ELSE [state |-> PickingDesktop, effect |-> "None", panics |-> FALSE]

\* FormState::update keeping the description of an Error but not its
\* error_type
FormStateUpdate_ForgetsErrorType(self, res) ==
    IF self.tag = "Idle"
    THEN [state |-> Idle, effect |-> "None", panics |-> FALSE]
    ELSE IF self.tag = "CreatedSession" /\ res.type = "success"
    THEN [state |-> PickingDesktop, effect |-> "FocusDesktopPicker", panics |-> FALSE]
    ELSE IF self.tag = "CreatedSession" /\ res.type = "error"
    THEN [state |-> LoginFailed("Error", res.description),
          effect |-> "None", panics |-> FALSE]
    ELSE IF self.tag = "CreatedSession" /\ res.type = "auth_message"
            /\ res.auth_message_type = "Secret"
    THEN [state |-> CreatedSession, effect |-> "SendPassword", panics |-> FALSE]
    ELSE IF self.tag = "CreatedSession" /\ res.type = "auth_message"
    THEN [state |-> CreatedSession, effect |-> "None", panics |-> FALSE]
    ELSE IF self.tag = "LoginFailed" /\ res.type = "success"
    THEN [state |-> PickingDesktop, effect |-> "None", panics |-> FALSE]
    ELSE IF self.tag = "LoginFailed"
    THEN [state |-> self, effect |-> "None", panics |-> TRUE]
    ELSE IF res.type = "error"
    THEN [state |-> LoginFailed("Error", res.description),
          effect |-> "None", panics |-> FALSE]
    ELSE [state |-> PickingDesktop, effect |-> "None", panics |-> FALSE]

FormStateUpdate(self, res) ==
    IF self.tag = "Idle"
    THEN [state |-> Idle, effect |-> "None", panics |-> FALSE]
    ELSE IF self.tag = "CreatedSession" /\ res.type = "success"
    THEN [state |-> PickingDesktop, effect |-> "FocusDesktopPicker", panics |-> FALSE]
    ELSE IF self.tag = "CreatedSession" /\ res.type = "error"
    THEN [state |-> LoginFailed(res.error_type, res.description),
          effect |-> "None", panics |-> FALSE]
    ELSE IF self.tag = "CreatedSession" /\ res.type = "auth_message"
            /\ res.auth_message_type = "Secret"
    THEN [state |-> CreatedSession, effect |-> "SendPassword", panics |-> FALSE]
    ELSE IF self.tag = "CreatedSession" /\ res.type = "auth_message"
    THEN [state |-> CreatedSession, effect |-> "None", panics |-> FALSE]
    ELSE IF self.tag = "LoginFailed" /\ res.type = "success"
    THEN [state |-> PickingDesktop, effect |-> "None", panics |-> FALSE]
    ELSE IF self.tag = "LoginFailed"
    THEN [state |-> self, effect |-> "None", panics |-> TRUE]
    ELSE IF res.type = "error"
    THEN [state |-> LoginFailed(res.error_type, res.description),
          effect |-> "None", panics |-> FALSE]
    ELSE [state |-> PickingDesktop, effect |-> "None", panics |-> FALSE]

\* the SendPassword arm sending the other field
SendPasswordRequest_Username(flds) == PostAuthMessageResponse(Some(flds.Username))

\* the Request of the FormEffect::SendPassword arm of update
SendPasswordRequest(flds) == PostAuthMessageResponse(Some(flds.Password))

\* the Request of the Msg::SubmitLogin arm of update
SubmitLoginRequest(flds) == CreateSession(flds.Username)

\* the Request expression of the Msg::StartShell arm of update, as written:
\* its first field is named cmd, and Request::StartSession declares command
\* and env, so the expression is no value of Request (rustc rejects it,
\* E0559); StartShell sends the value of Request with these two arrays
StartShellRequest ==
    [type |-> "start_session", cmd |-> <<"/bin/sh">>, env |-> <<>>]

(***************************************************************************)
(* The wire format (greetd.rs).  A byte is a number in 0..255, a text or a *)
(* buffer is a sequence of bytes.                                          *)
(***************************************************************************)
\* str::as_bytes, for the strings that occur in the model (all ASCII)
AsBytes(s) ==
    CASE s = "" -> <<>>
      [] s = "null" -> <<110, 117, 108, 108>>
      [] s = "Bingus" -> <<66, 105, 110, 103, 117, 115>>
      [] s = "1234" -> <<49, 50, 51, 52>>
      [] s = "/bin/sh" -> <<47, 98, 105, 110, 47, 115, 104>>
      [] s = "bad password" -> <<98, 97, 100, 32, 112, 97, 115, 115, 119, 111, 114, 100>>
      [] s = "Password:" -> <<80, 97, 115, 115, 119, 111, 114, 100, 58>>
      [] s = "Visible" -> <<86, 105, 115, 105, 98, 108, 101>>
      [] s = "Secret" -> <<83, 101, 99, 114, 101, 116>>
      [] s = "Info" -> <<73, 110, 102, 111>>
      [] s = "Error" -> <<69, 114, 114, 111, 114>>
      [] s = "AuthError" -> <<65, 117, 116, 104, 69, 114, 114, 111, 114>>
      [] s = "type" -> <<116, 121, 112, 101>>
      [] s = "success" -> <<115, 117, 99, 99, 101, 115, 115>>
      [] s = "error" -> <<101, 114, 114, 111, 114>>
      [] s = "auth_message" -> <<97, 117, 116, 104, 95, 109, 101, 115, 115, 97, 103, 101>>
      [] s = "create_session" -> <<99, 114, 101, 97, 116, 101, 95, 115, 101, 115, 115, 105, 111, 110>>
      [] s = "post_auth_message_response" -> <<112, 111, 115, 116, 95, 97, 117, 116, 104, 95, 109, 101, 115, 115, 97, 103, 101, 95, 114, 101, 115, 112, 111, 110, 115, 101>>
      [] s = "start_session" -> <<115, 116, 97, 114, 116, 95, 115, 101, 115, 115, 105, 111, 110>>
      [] s = "cancel_session" -> <<99, 97, 110, 99, 101, 108, 95, 115, 101, 115, 115, 105, 111, 110>>
      [] s = "username" -> <<117, 115, 101, 114, 110, 97, 109, 101>>
      [] s = "response" -> <<114, 101, 115, 112, 111, 110, 115, 101>>
      [] s = "command" -> <<99, 111, 109, 109, 97, 110, 100>>
      [] s = "env" -> <<101, 110, 118>>
      [] s = "error_type" -> <<101, 114, 114, 111, 114, 95, 116, 121, 112, 101>>
      [] s = "description" -> <<100, 101, 115, 99, 114, 105, 112, 116, 105, 111, 110>>
      [] s = "auth_message_type" -> <<97, 117, 116, 104, 95, 109, 101, 115, 115, 97, 103, 101, 95, 116, 121, 112, 101>>
      [] s = "auth_error" -> <<97, 117, 116, 104, 95, 101, 114, 114, 111, 114>>
      [] s = "visible" -> <<118, 105, 115, 105, 98, 108, 101>>
      [] s = "secret" -> <<115, 101, 99, 114, 101, 116>>
      [] s = "info" -> <<105, 110, 102, 111>>

Min(a, b) == IF a < b THEN a ELSE b

RECURSIVE JoinComma(_)
JoinComma(parts) ==
    IF parts = <<>> THEN <<>>
    ELSE IF Len(parts) = 1 THEN parts[1]
    ELSE parts[1] \o <<44>> \o JoinComma(Tail(parts))

\* serde_json's output for a string (none of the model's strings needs an
\* escape), a field, an object and an array of strings
JsonStr(s) == <<34>> \o AsBytes(s) \o <<34>>
JsonField(key, value) == JsonStr(key) \o <<58>> \o value
JsonObject(members) == <<123>> \o JoinComma(members) \o <<125>>
JsonArray(strs) ==
    <<91>> \o JoinComma([i \in 1..Len(strs) |-> JsonStr(strs[i])]) \o <<93>>

\* to_string writing the tag of CreateSession after its field
RequestToString_TagLast(msg) ==
    CASE msg.type = "create_session" ->
            JsonObject(<<JsonField("username", JsonStr(msg.username)),
                         JsonField("type", JsonStr(msg.type))>>)
      [] msg.type = "post_auth_message_response" ->
            JsonObject(<<JsonField("type", JsonStr(msg.type)),
                         JsonField("response",
                                   IF msg.response = None THEN AsBytes("null")
                                   ELSE JsonStr(msg.response[1]))>>)
      [] msg.type = "start_session" ->
            JsonObject(<<JsonField("type", JsonStr(msg.type)),
                         JsonField("command", JsonArray(msg.command)),
                         JsonField("env", JsonArray(msg.env))>>)
      [] msg.type = "cancel_session" ->
            JsonObject(<<JsonField("type", JsonStr(msg.type))>>)

\* serde_json::to_string(&msg) for a Request: internally tagged with "type",
\* variant names in snake_case, fields in declaration order
RequestToString(msg) ==
    CASE msg.type = "create_session" ->
            JsonObject(<<JsonField("type", JsonStr(msg.type)),
                         JsonField("username", JsonStr(msg.username))>>)
      [] msg.type = "post_auth_message_response" ->
            JsonObject(<<JsonField("type", JsonStr(msg.type)),
                         JsonField("response",
                                   IF msg.response = None THEN AsBytes("null")
                                   ELSE JsonStr(msg.response[1]))>>)
      [] msg.type = "start_session" ->
            JsonObject(<<JsonField("type", JsonStr(msg.type)),
                         JsonField("command", JsonArray(msg.command)),
                         JsonField("env", JsonArray(msg.env))>>)
      [] msg.type = "cancel_session" ->
            JsonObject(<<JsonField("type", JsonStr(msg.type))>>)

\* serde_json::to_string for a Response; AuthMessageType and ErrorType have
\* no rename_all, so their variants keep their Rust names
ResponseToString(res) ==
    CASE res.type = "success" ->
            JsonObject(<<JsonField("type", JsonStr(res.type))>>)
      [] res.type = "error" ->
            JsonObject(<<JsonField("type", JsonStr(res.type)),
                         JsonField("error_type", JsonStr(res.error_type)),
                         JsonField("description", JsonStr(res.description))>>)
      [] res.type = "auth_message" ->
            JsonObject(<<JsonField("type", JsonStr(res.type)),
                         JsonField("auth_message_type",
                                   JsonStr(res.auth_message_type)),
                         JsonField("auth_message", JsonStr(res.auth_message))>>)

\* Result<Response>
Ok(res) == [ok |-> TRUE, res |-> res]
Err(why) == [ok |-> FALSE, why |-> why]

\* std::str::from_utf8 succeeds: every byte of the model is ASCII or 0xFF,
\* and 0xFF occurs in no UTF-8 text
FromUtf8Ok(bytes) == \A i \in 1..Len(bytes) : bytes[i] < 128

\* serde_json::from_str::<Response>: the texts of the model are the texts
\* serde_json writes for a Response, and texts that are no Response
FromStr(text) ==
    IF \E res \in Response : ResponseToString(res) = text
    THEN Ok(CHOOSE res \in Response : ResponseToString(res) = text)
    ELSE Err("json")

greetd_decode_impl(bytes) ==
    IF ~FromUtf8Ok(bytes) THEN Err("utf8") ELSE FromStr(bytes)

\* u32::to_ne_bytes and u32::from_ne_bytes on a little-endian target; the
\* lengths of the model are below 2^31, where `len as u32` changes nothing
ToNeBytes(n) ==
    <<n % 256, (n \div 256) % 256, (n \div 65536) % 256, (n \div 16777216) % 256>>
FromNeBytes(b) == b[1] + 256 * b[2] + 65536 * b[3] + 16777216 * b[4]

\* the bytes greetd_write hands to write_all for the text msg: the length
\* prefix wrongly counting itself
Framed_CountsPrefix(msg) == ToNeBytes(Len(msg) + 4) \o msg

\* the bytes greetd_write hands to write_all for the text msg
Framed(msg) == ToNeBytes(Len(msg)) \o msg

\* read_exact polled once: buf is what it has read so far of the n bytes it
\* wants, avail the bytes at hand; the result is buf afterwards
ReadExact(buf, n, avail) == buf \o SubSeq(avail, 1, Min(n - Len(buf), Len(avail)))

\* the two read_exact calls of greetd_decode on a transport that holds bytes
\* and then ends: the payload buf, the number of bytes taken, and whether a
\* read_exact met the end
ReadFrame(bytes) ==
    IF Len(bytes) < 4
    THEN [eof |-> TRUE, buf |-> <<>>, used |-> Len(bytes)]
    ELSE LET len == FromNeBytes(SubSeq(bytes, 1, 4))
         IN  IF Len(bytes) - 4 < len
             THEN [eof |-> TRUE, buf |-> <<>>, used |-> Len(bytes)]
             ELSE [eof |-> FALSE, buf |-> SubSeq(bytes, 5, 4 + len),
                   used |-> 4 + len]

\* greetd_decode on such a transport: the result and the bytes taken
greetd_decode(bytes) ==
    LET f == ReadFrame(bytes)
    IN  [res |-> IF f.eof THEN Err("eof") ELSE greetd_decode_impl(f.buf),
         used |-> f.used]

(***************************************************************************)
(* State.                                                                  *)
(***************************************************************************)
VARIABLES
    form_state,     \* Model.form_state
    focus,          \* Model.focus
    fields,         \* Model.fields, the value of each Input
    last_response,  \* Model.last_response
    req_q,          \* the flume channel req_tx -> req_rx
    msg_q,          \* the runtime's channel tx of Msgs sent by tasks and effects
    quit_effects,   \* effects returned by StartShell that have not run yet
    conn,           \* greetd_task: "init", "connected", "absent", "returned"
    sock_in,        \* frames sent by the daemon that have arrived whole and
                    \* that no greetd_decode has returned or lost
    sock_part,      \* the frame of which only the first bytes have arrived
                    \* (a sequence of at most one frame)
    sock_out,       \* Request frames written to the socket
    status,         \* the process: "running", "quit", "todo", "panic"
    ninputs,        \* history: key presses taken plus frames the daemon sent
    last_step,      \* history: the last protocol step of update
    unanswered,     \* history: Requests enqueued since the last Msg::GreetdRes
    n_auth,         \* history: AuthMessage responses delivered to update
    n_post,         \* history: PostAuthMessageResponse requests enqueued
    attempt,        \* history: "none", "open" (CreateSession sent), "failed"
    scen,           \* history: the protocol steps so far, while they follow Scenario
    run,            \* history: the protocol steps so far, while they are
                    \* SubmitLogin, Secret prompts, Success
    peer_out,       \* bytes the daemon has written that have not arrived yet
    rd,             \* bytes arrived at the read half (socket and BufReader),
                    \* not yet taken by a read_exact
    peer_closed,    \* the daemon has closed its end
    sk_err,         \* the socket holds the error ECONNRESET: the daemon closed
                    \* with bytes of a Request unread
    dec,            \* the greetd_decode future of the current select!
    wr,             \* the write branch of select!: position, text, BufWriter
    wire_out,       \* bytes written to the socket by the write half
    h_sent,         \* history: the payloads of the frames the daemon wrote
    h_decoded,      \* history: the greetd_decode calls that returned
    h_taken         \* history: the Requests received from req_rx

vars == <<form_state, focus, fields, last_response, req_q, msg_q,
          quit_effects, conn, sock_in, sock_part, sock_out, status, ninputs,
          last_step, unanswered, n_auth, n_post, attempt, scen, run,
          peer_out, rd, peer_closed, sk_err, dec, wr, wire_out,
          h_sent, h_decoded, h_taken>>

model == <<form_state, focus, fields, last_response>>
task == <<conn, sock_in, sock_part, sock_out>>
hist == <<ninputs, last_step, unanswered, n_auth, n_post, attempt, scen, run>>
wire == <<peer_out, rd, peer_closed, sk_err, dec, wr, wire_out,
          h_sent, h_decoded, h_taken>>
app == <<model, quit_effects, sock_in, sock_part, sock_out, hist>>

(***************************************************************************)
(* History variables.  A protocol step is an update of Msg::SubmitLogin,   *)
(* Msg::StartShell or Msg::GreetdRes.  last_step keeps the Msg of the last *)
(* one and the phase it started from; the phase it ended in is form_state. *)
(***************************************************************************)
Step(ev, before) == [ev |-> ev, before |-> before]

NoStep == Step("none", Idle)

\* the kind of a protocol step
Kind(ev, res) ==
    IF ev # "GreetdRes" THEN ev
    ELSE IF res.type # "auth_message" THEN res.type
    ELSE IF res.auth_message_type = "Secret" THEN "secret"
    ELSE "notice"

\* the run of section 8 of the specification
Scenario == <<"SubmitLogin", "secret", "success", "success">>
Off == <<"off">>

Follow(sc, kind) ==
    IF sc # Off /\ Len(sc) < Len(Scenario) /\ Scenario[Len(sc) + 1] = kind
    THEN Append(sc, kind)
    ELSE Off

\* a login with any number of Secret prompts: SubmitLogin, the prompts, Success
FollowPrompts(r, kind) ==
    IF r = Off THEN Off
    ELSE IF r = <<>>
    THEN (IF kind = "SubmitLogin" THEN <<kind>> ELSE Off)
    ELSE IF r[Len(r)] \in {"SubmitLogin", "secret"} /\ kind \in {"secret", "success"}
    THEN Append(r, kind)
    ELSE Off

\* the history after a protocol step that did not panic
Record(ev, res, emitted) ==
    /\ last_step' = Step(ev, form_state)
    /\ unanswered' = (IF ev = "GreetdRes" THEN 0 ELSE unanswered) + Len(emitted)
    /\ n_auth' = n_auth + (IF ev = "GreetdRes" /\ res.type = "auth_message"
                           THEN 1 ELSE 0)
    /\ n_post' = n_post + Cardinality({i \in 1..Len(emitted) :
                               emitted[i].type = "post_auth_message_response"})
    /\ attempt' = IF ev = "SubmitLogin" THEN "open"
                  ELSE IF ev = "GreetdRes" /\ res.type = "error"
                          /\ attempt = "open" THEN "failed"
                  ELSE attempt
    /\ scen' = Follow(scen, Kind(ev, res))
    /\ run' = FollowPrompts(run, Kind(ev, res))
    /\ ninputs' = ninputs + (IF ev = "GreetdRes" THEN 0 ELSE 1)

\* a greetd_decode future that has not been polled: nothing read; split
\* notes that a poll returned Pending inside the length prefix
NewDecode == [pc |-> "len", len_buf |-> <<>>, buf |-> <<>>, split |-> FALSE]
\* the loop of greetd_task waiting in select!
InSelect == [pc |-> "select", msg |-> <<>>, wbuf |-> <<>>]

(***************************************************************************)
(* init (main.rs:201-225)                                                  *)
(***************************************************************************)
Init ==
    /\ form_state = Idle
    /\ focus = "UsernameField"
    /\ fields = [Username |-> "", Password |-> ""]
    /\ last_response = None
    /\ req_q = <<>>
    /\ msg_q = <<>>
    /\ quit_effects = 0
    /\ conn = "init"
    /\ sock_in = <<>>
    /\ sock_part = <<>>
    /\ sock_out = <<>>
    /\ status = "running"
    /\ ninputs = 0
    /\ last_step = NoStep
    /\ unanswered = 0
    /\ n_auth = 0
    /\ n_post = 0
    /\ attempt = "none"
    /\ scen = <<>>
    /\ run = <<>>
    /\ peer_out = <<>>
    /\ rd = <<>>
    /\ peer_closed = FALSE
    /\ sk_err = FALSE
    /\ dec = NewDecode
    /\ wr = InSelect
    /\ wire_out = <<>>
    /\ h_sent = <<>>
    /\ h_decoded = <<>>
    /\ h_taken = <<>>

(***************************************************************************)
(* update (main.rs:462-534), one action per Msg arm.  The key handlers of  *)
(* view decide which Msg a key press can produce in the current Model; the *)
(* Msgs of greetd_task and of the effects come through msg_q.              *)
(***************************************************************************)

\* Msg::GreetdRes(res), taken from the head of the runtime's channel.
\* status "todo" is the panic of todo!() in FormState::update.
UpdateGreetdRes ==
    /\ status = "running"
    /\ msg_q # <<>>
    /\ Head(msg_q).msg = "GreetdRes"
    /\ LET res == Head(msg_q).res
           r == FormStateUpdate(form_state, res)
           emitted == IF r.effect = "SendPassword"
                      THEN <<SendPasswordRequest(fields)>> ELSE <<>>
       IN  IF r.panics
           THEN /\ status' = "todo"
                /\ msg_q' = Tail(msg_q)
                /\ last_step' = Step("GreetdRes", form_state)
                /\ UNCHANGED <<model, req_q, ninputs, unanswered, n_auth,
                               n_post, attempt, scen, run>>
           ELSE /\ form_state' = r.state
                /\ focus' = IF r.effect = "FocusDesktopPicker"
                            THEN "DesktopPicker" ELSE focus
                /\ last_response' = Some(res)
                /\ req_q' = req_q \o emitted
                /\ msg_q' = Tail(msg_q)
                /\ Record("GreetdRes", res, emitted)
                /\ UNCHANGED <<fields, status>>
    /\ UNCHANGED <<wire, quit_effects, task>>

\* Msg::Error(report): panic!("{report:?}")
UpdateError ==
    /\ status = "running"
    /\ msg_q # <<>>
    /\ Head(msg_q).msg = "Error"
    /\ status' = "panic"
    /\ msg_q' = Tail(msg_q)
    /\ UNCHANGED <<wire, model, req_q, quit_effects, task, hist>>

\* Msg::Quit from the runtime's channel, where StartShell's effect sends it:
\* quit_signal (main.rs:73) ends the run before update sees it.
QuitSignal ==
    /\ status = "running"
    /\ msg_q # <<>>
    /\ Head(msg_q).msg = "Quit"
    /\ status' = "quit"
    /\ msg_q' = Tail(msg_q)
    /\ UNCHANGED <<wire, model, req_q, quit_effects, task, hist>>

\* typing into a field putting the phase back to Idle
FieldUpdate_ResetsPhase(field, input) ==
    /\ status = "running"
    /\ focus = (IF field = "Username" THEN "UsernameField" ELSE "PasswordField")
    /\ fields[field] # input
    /\ fields' = [fields EXCEPT ![field] = input]
    /\ form_state' = Idle
    /\ UNCHANGED <<wire, focus, last_response, req_q, msg_q,
                   quit_effects, task, status, hist>>

\* Msg::FieldUpdate(field, input), from the focused FieldInput
FieldUpdate(field, input) ==
    /\ status = "running"
    /\ focus = (IF field = "Username" THEN "UsernameField" ELSE "PasswordField")
    /\ fields[field] # input
    /\ fields' = [fields EXCEPT ![field] = input]
    /\ UNCHANGED <<wire, form_state, focus, last_response, req_q, msg_q,
                   quit_effects, task, status, hist>>

\* Msg::FocusOn(f), from the username or the password field handler
FocusOn(f) ==
    /\ status = "running"
    /\ \/ focus = "UsernameField" /\ f = "PasswordField"
       \/ focus = "PasswordField" /\ f = "UsernameField"
    /\ focus' = f
    /\ UNCHANGED <<wire, form_state, fields, last_response, req_q, msg_q,
                   quit_effects, task, status, hist>>

\* Msg::SubmitLogin, Enter in the focused password field
SubmitLogin ==
    /\ status = "running"
    /\ focus = "PasswordField"
    /\ ninputs < MaxInputs
    /\ req_q' = Append(req_q, SubmitLoginRequest(fields))
    /\ form_state' = CreatedSession
    /\ Record("SubmitLogin", Success, <<SubmitLoginRequest(fields)>>)
    /\ UNCHANGED <<wire, focus, fields, last_response, msg_q, quit_effects,
                   task, status>>

\* Msg::StartShell, 'b' in the DesktopPicker, which view shows only while
\* form_state is PickingDesktop.  req_tx carries values of Request, and
\* the arm builds only once its first field has the declared name: what it
\* sends is Request::StartSession with the two arrays of the expression,
\* the first one under command.
StartShell ==
    LET sent == StartSession(StartShellRequest.cmd, StartShellRequest.env)
    IN  /\ status = "running"
        /\ form_state.tag = "PickingDesktop"
        /\ ninputs < MaxInputs
        /\ req_q' = Append(req_q, sent)
        /\ quit_effects' = quit_effects + 1
        /\ Record("StartShell", Success, <<sent>>)
        /\ UNCHANGED <<wire, model, msg_q, task, status>>

\* the Effect returned by StartShell: tx.send_async(Msg::Quit)
QuitEffect ==
    /\ status = "running"
    /\ quit_effects > 0
    /\ quit_effects' = quit_effects - 1
    /\ msg_q' = Append(msg_q, MsgQuit)
    /\ UNCHANGED <<wire, model, req_q, task, status, hist>>

(***************************************************************************)
(* view (main.rs:285-460): the handler of the outer Block                  *)
(***************************************************************************)

\* Ctrl-C in any state of the Model: the handler returns Msg::Quit, and
\* quit_signal (main.rs:73) ends the run
CtrlC ==
    /\ status = "running"
    /\ status' = "quit"
    /\ UNCHANGED <<wire, model, req_q, msg_q, quit_effects, task, hist>>

(***************************************************************************)
(* greetd_task (main.rs:227-283), at the level of frames.  dec and wr are  *)
(* the two branches of select!.  A poll of greetd_decode reads every byte  *)
(* that has arrived: dec.pc is "len" when the future has read nothing,     *)
(* "payload" when it holds the first bytes of the frame at the head of the *)
(* stream, "garbage" when it has started inside a frame and holds a length *)
(* taken from the middle of the stream, "disabled" when it has returned    *)
(* Err.  A length taken from the middle of a stream of these frames has a  *)
(* byte of a text or of the next prefix in a high position: it is more     *)
(* than the bytes of a whole run, so such a future only ends at the end    *)
(* of the stream.                                                          *)
(***************************************************************************)

\* the task returning the connect error without init's effect sending
\* Msg::Error
Connect_ReturnsSilently(ok, debug) ==
    /\ status = "running"
    /\ conn = "init"
    /\ IF ok
       THEN conn' = "connected" /\ msg_q' = msg_q
       ELSE IF debug
       THEN conn' = "absent" /\ msg_q' = msg_q
       ELSE conn' = "returned" /\ msg_q' = msg_q
    /\ UNCHANGED <<wire, model, req_q, quit_effects, sock_in, sock_part,
                   sock_out, status, hist>>

\* greetd_connect and the match on (greetd, cli_args.debug); ok is the
\* outcome of the connect, debug the command line flag, read here only
Connect(ok, debug) ==
    /\ status = "running"
    /\ conn = "init"
    /\ IF ok
       THEN conn' = "connected" /\ msg_q' = msg_q
       ELSE IF debug
       THEN conn' = "absent" /\ msg_q' = msg_q
       ELSE conn' = "returned" /\ msg_q' = Append(msg_q, MsgError)
    /\ UNCHANGED <<wire, model, req_q, quit_effects, sock_in, sock_part,
                   sock_out, status, hist>>

\* the stream after select! has dropped the future d: the first bytes of
\* the frame d was reading are lost with it
Dropped(d, whole, part) ==
    IF d.pc # "payload" THEN [sock_in |-> whole, sock_part |-> part]
    ELSE IF whole # <<>>
    THEN [sock_in |-> <<Torn>> \o Tail(whole), sock_part |-> part]
    ELSE [sock_in |-> whole, sock_part |-> <<Torn>>]

\* the recv branch failing when there is no stream, instead of dropping
TaskRecv_FailsWithoutStream ==
    /\ status = "running"
    /\ conn \in {"connected", "absent"}
    /\ wr.pc = "select"
    /\ req_q # <<>>
    /\ req_q' = Tail(req_q)
    /\ IF conn = "absent"
       THEN /\ conn' = "returned"
            /\ msg_q' = Append(msg_q, MsgError)
            /\ UNCHANGED <<dec, wr, h_taken, sock_in, sock_part>>
       ELSE /\ h_taken' = Append(h_taken, Head(req_q))
            /\ wr' = [InSelect EXCEPT !.pc = "flush"]
            /\ dec' = NewDecode
            /\ sock_in' = Dropped(dec, sock_in, sock_part).sock_in
            /\ sock_part' = Dropped(dec, sock_in, sock_part).sock_part
            /\ UNCHANGED <<conn, msg_q>>
    /\ UNCHANGED <<model, quit_effects, sock_out, status, hist, peer_out, rd,
                   peer_closed, sk_err, wire_out, h_sent, h_decoded>>

\* select! completes req_rx.recv_async() with Ok(req) and drops the
\* greetd_decode future.  Without a stream the Request is dropped and the
\* loop goes on; with one, greetd_write starts
TaskRecv ==
    /\ status = "running"
    /\ conn \in {"connected", "absent"}
    /\ wr.pc = "select"
    /\ req_q # <<>>
    /\ req_q' = Tail(req_q)
    /\ IF conn = "absent"
       THEN UNCHANGED <<dec, wr, h_taken, sock_in, sock_part>>
       ELSE /\ h_taken' = Append(h_taken, Head(req_q))
            /\ wr' = [InSelect EXCEPT !.pc = "flush"]
            /\ dec' = NewDecode
            /\ sock_in' = Dropped(dec, sock_in, sock_part).sock_in
            /\ sock_part' = Dropped(dec, sock_in, sock_part).sock_part
    /\ UNCHANGED <<model, msg_q, quit_effects, conn, sock_out, status, hist,
                   peer_out, rd, peer_closed, sk_err, wire_out, h_sent,
                   h_decoded>>

\* greetd_write(req).await returns: the frame is written and flushed, and the
\* loop goes back to select!; or the daemon has closed, the write fails,
\* greetd_task returns the error and init's effect sends Msg::Error.  Until
\* then the task polls nothing else
TaskWrite ==
    /\ status = "running"
    /\ conn = "connected"
    /\ wr.pc = "flush"
    /\ IF peer_closed
       THEN /\ conn' = "returned"
            /\ msg_q' = Append(msg_q, MsgError)
            /\ wr' = [wr EXCEPT !.pc = "returned"]
            /\ sock_out' = sock_out
       ELSE /\ sock_out' = Append(sock_out, h_taken[Len(h_taken)])
            /\ wr' = InSelect
            /\ UNCHANGED <<conn, msg_q>>
    /\ UNCHANGED <<model, req_q, quit_effects, sock_in, sock_part, status,
                   hist, peer_out, rd, peer_closed, sk_err, dec, wire_out,
                   h_sent, h_decoded, h_taken>>

\* select! polls greetd_decode(&mut stream) and the frame at the head of the
\* stream is whole.  Ok(res): tx.send_async(Msg::GreetdRes(res)).  Err (the
\* payload is no Response): the pattern Ok(res) does not match, and the
\* branch is disabled until the other branch completes
TaskDecode ==
    /\ status = "running"
    /\ conn = "connected"
    /\ wr.pc = "select"
    /\ dec.pc \in {"len", "payload"}
    /\ sock_in # <<>>
    /\ Head(sock_in) # Torn
    /\ sock_in' = Tail(sock_in)
    /\ IF Head(sock_in) \in Response
       THEN /\ msg_q' = Append(msg_q, MsgGreetdRes(Head(sock_in)))
            /\ dec' = NewDecode
       ELSE /\ msg_q' = msg_q
            /\ dec' = [NewDecode EXCEPT !.pc = "disabled"]
    /\ UNCHANGED <<model, req_q, quit_effects, conn, sock_part, sock_out,
                   status, hist, peer_out, rd, peer_closed, sk_err, wr,
                   wire_out, h_sent, h_decoded, h_taken>>

\* a poll of greetd_decode that reads the first bytes of a frame and is
\* Pending for the rest
TaskDecodePart ==
    /\ status = "running"
    /\ conn = "connected"
    /\ wr.pc = "select"
    /\ dec.pc = "len"
    /\ sock_in = <<>>
    /\ sock_part # <<>>
    /\ Head(sock_part) # Torn
    /\ dec' = [NewDecode EXCEPT !.pc = "payload"]
    /\ UNCHANGED <<model, req_q, msg_q, quit_effects, task, status, hist,
                   peer_out, rd, peer_closed, sk_err, wr, wire_out, h_sent,
                   h_decoded, h_taken>>

\* a poll of greetd_decode on a stream that is inside a frame: the future
\* takes a length from the middle of the stream, then reads everything that
\* has arrived into its buffer, and is Pending
TaskDecodeGarbage ==
    /\ status = "running"
    /\ conn = "connected"
    /\ wr.pc = "select"
    /\ \/ /\ dec.pc = "len"
          /\ \/ sock_in # <<>> /\ Head(sock_in) = Torn
             \/ sock_in = <<>> /\ sock_part = <<Torn>>
       \/ /\ dec.pc = "garbage"
          /\ sock_in # <<>> \/ (sock_part # <<>> /\ sock_part # <<Torn>>)
    /\ dec' = [NewDecode EXCEPT !.pc = "garbage"]
    /\ sock_in' = <<>>
    /\ sock_part' = IF sock_part = <<>> THEN <<>> ELSE <<Torn>>
    /\ UNCHANGED <<model, req_q, msg_q, quit_effects, conn, sock_out, status,
                   hist, peer_out, rd, peer_closed, sk_err, wr, wire_out,
                   h_sent, h_decoded, h_taken>>

\* a poll of greetd_decode at the end of the stream: read_exact fails, the
\* branch is disabled.  A future that was inside a frame has taken what was
\* left of the stream
TaskDecodeEof ==
    /\ status = "running"
    /\ conn = "connected"
    /\ wr.pc = "select"
    /\ dec.pc # "disabled"
    /\ peer_closed
    /\ sock_part = <<>>
    /\ IF sock_in = <<>> THEN TRUE
       ELSE dec.pc = "garbage" \/ Head(sock_in) = Torn
    /\ dec' = [NewDecode EXCEPT !.pc = "disabled"]
    /\ sock_in' = <<>>
    /\ sk_err' = FALSE
    /\ UNCHANGED <<model, req_q, msg_q, quit_effects, conn, sock_part,
                   sock_out, status, hist, peer_out, rd, peer_closed, wr,
                   wire_out, h_sent, h_decoded, h_taken>>

(***************************************************************************)
(* The daemon: any frame at any time, whole or in two parts, and the close *)
(* of its end.                                                             *)
(***************************************************************************)
InPipe ==
    Len(sock_in) + Len(sock_part)
    + Cardinality({i \in 1..Len(msg_q) : msg_q[i].msg = "GreetdRes"})

\* a frame arrives whole
DaemonSend(res) ==
    /\ status = "running"
    /\ conn = "connected"
    /\ ~peer_closed
    /\ sock_part = <<>>
    /\ ninputs < MaxInputs
    /\ InPipe < MaxPipe
    /\ sock_in' = Append(sock_in, res)
    /\ ninputs' = ninputs + 1
    /\ UNCHANGED <<wire, model, req_q, msg_q, quit_effects, conn, sock_part,
                   sock_out, status, last_step, unanswered, n_auth, n_post,
                   attempt, scen, run>>

\* the first bytes of a frame arrive
DaemonSendPart(res) ==
    /\ status = "running"
    /\ conn = "connected"
    /\ ~peer_closed
    /\ sock_part = <<>>
    /\ ninputs < MaxInputs
    /\ InPipe < MaxPipe
    /\ sock_part' = <<res>>
    /\ ninputs' = ninputs + 1
    /\ UNCHANGED <<wire, model, req_q, msg_q, quit_effects, conn, sock_in,
                   sock_out, status, last_step, unanswered, n_auth, n_post,
                   attempt, scen, run>>

\* the rest of the frame arrives
ArriveRest ==
    /\ status = "running"
    /\ sock_part # <<>>
    /\ sock_in' = Append(sock_in, Head(sock_part))
    /\ sock_part' = <<>>
    /\ UNCHANGED <<wire, model, req_q, msg_q, quit_effects, conn, sock_out,
                   status, hist>>

\* the daemon closes its end, when every byte it wrote has arrived.  The
\* socket holds ECONNRESET if the daemon had not read every byte written
\* to it, which is the daemon's choice
DaemonClose ==
    /\ status = "running"
    /\ conn = "connected"
    /\ ~peer_closed
    /\ peer_out = <<>>
    /\ sock_part = <<>>
    /\ peer_closed' = TRUE
    /\ sk_err' \in IF wire_out = <<>> /\ sock_out = <<>>
                   THEN {FALSE} ELSE BOOLEAN
    /\ UNCHANGED <<app, req_q, msg_q, conn, status, peer_out, rd, dec, wr,
                   wire_out, h_sent, h_decoded, h_taken>>

Next ==
    \/ UpdateGreetdRes
    \/ UpdateError
    \/ QuitSignal
    \/ CtrlC
    \/ \E input \in Usernames : FieldUpdate("Username", input)
    \/ \E input \in Passwords : FieldUpdate("Password", input)
    \/ \E f \in Focus : FocusOn(f)
    \/ SubmitLogin
    \/ StartShell
    \/ QuitEffect
    \/ \E ok \in BOOLEAN, debug \in BOOLEAN : Connect(ok, debug)
    \/ TaskRecv
    \/ TaskWrite
    \/ TaskDecode
    \/ TaskDecodePart
    \/ TaskDecodeGarbage
    \/ TaskDecodeEof
    \/ \E res \in Frames : DaemonSend(res)
    \/ \E res \in Frames : DaemonSendPart(res)
    \/ ArriveRest
    \/ DaemonClose

Spec == Init /\ [][Next]_vars

(***************************************************************************)
(* greetd_task at the level of bytes (main.rs:269-282, greetd.rs:87-133).  *)
(* SpecWire starts where the task has connected and split the stream, and *)
(* follows the select! loop poll by poll: the daemon's bytes arrive one at *)
(* a time, greetd_decode is a future that keeps what it has read between   *)
(* polls and is dropped when the other branch of select! completes, and    *)
(* greetd_write fills the BufWriter and flushes it.                        *)
(***************************************************************************)
\* frames the daemon writes in one run
MaxFrames == 2
\* Requests update sends in one run
MaxReqs == 2
\* Requests update sends in one run of the whole task
MaxWireReqs == 1

\* the payloads the daemon writes: a Response, and a text that is none
WirePayloads == {ResponseToString(Success), <<123, 125>>}
\* the Requests update sends
WireRequests == {CreateSession("Bingus"), PostAuthMessageResponse(Some("1234"))}

InitWire ==
    /\ form_state = Idle
    /\ focus = "UsernameField"
    /\ fields = [Username |-> "", Password |-> ""]
    /\ last_response = None
    /\ req_q = <<>>
    /\ msg_q = <<>>
    /\ quit_effects = 0
    /\ conn = "connected"
    /\ sock_in = <<>>
    /\ sock_part = <<>>
    /\ sock_out = <<>>
    /\ status = "running"
    /\ ninputs = 0
    /\ last_step = NoStep
    /\ unanswered = 0
    /\ n_auth = 0
    /\ n_post = 0
    /\ attempt = "none"
    /\ scen = <<>>
    /\ run = <<>>
    /\ peer_out = <<>>
    /\ rd = <<>>
    /\ peer_closed = FALSE
    /\ sk_err = FALSE
    /\ dec = NewDecode
    /\ wr = InSelect
    /\ wire_out = <<>>
    /\ h_sent = <<>>
    /\ h_decoded = <<>>
    /\ h_taken = <<>>

RECURSIVE Concat(_)
Concat(seqs) == IF seqs = <<>> THEN <<>> ELSE Head(seqs) \o Concat(Tail(seqs))

\* every byte the daemon has written so far
Stream == Concat([i \in 1..Len(h_sent) |-> Framed(h_sent[i])])
\* the number of bytes read_exact has taken from the read half so far
NRead == Len(Stream) - Len(peer_out) - Len(rd)
\* the stream has ended: the daemon has closed and every byte has been
\* read.  read fails with ECONNRESET if the socket holds that error, and
\* returns 0 otherwise
AtEof == peer_closed /\ peer_out = <<>>

\* update: self.req_tx.send(req)
SendRequest(req) ==
    /\ status = "running"
    /\ Len(h_taken) + Len(req_q) < MaxReqs
    /\ req_q' = Append(req_q, req)
    /\ UNCHANGED <<app, msg_q, conn, status, wire>>

\* the daemon writes one frame
DaemonWrite(payload) ==
    /\ ~peer_closed
    /\ peer_out = <<>>
    /\ Len(h_sent) < MaxFrames
    /\ peer_out' = Framed(payload)
    /\ h_sent' = Append(h_sent, payload)
    /\ UNCHANGED <<app, req_q, msg_q, conn, status, rd, peer_closed, sk_err, dec, wr,
                   wire_out, h_decoded, h_taken>>

\* one more byte of the daemon's arrives at the read half
Arrive ==
    /\ peer_out # <<>>
    /\ rd' = Append(rd, Head(peer_out))
    /\ peer_out' = Tail(peer_out)
    /\ UNCHANGED <<app, req_q, msg_q, conn, status, peer_closed, sk_err, dec, wr,
                   wire_out, h_sent, h_decoded, h_taken>>

\* a poll that starts the length prefix afresh, forgetting the bytes of it
\* that an earlier poll had read
PollDecode_ForgetsPrefix(d, avail, eof) ==
    LET len_buf == IF d.pc = "len" THEN ReadExact(<<>>, 4, avail)
                   ELSE d.len_buf
        used1 == IF d.pc = "len" THEN Len(len_buf) ELSE 0
        rest == SubSeq(avail, used1 + 1, Len(avail))
    IN  IF Len(len_buf) < 4
        THEN [done |-> eof, res |-> Err("eof"), used |-> used1,
              d |-> [pc |-> "len", len_buf |-> len_buf, buf |-> <<>>,
                     split |-> d.split \/ len_buf # <<>>]]
        ELSE LET len == FromNeBytes(len_buf)
                 buf == ReadExact(d.buf, len, rest)
                 used2 == Len(buf) - Len(d.buf)
             IN  IF Len(buf) < len
                 THEN [done |-> eof, res |-> Err("eof"), used |-> used1 + used2,
                       d |-> [pc |-> "payload", len_buf |-> len_buf,
                              buf |-> buf, split |-> d.split]]
                 ELSE [done |-> TRUE, res |-> greetd_decode_impl(buf),
                       used |-> used1 + used2,
                       d |-> [pc |-> "payload", len_buf |-> len_buf,
                              buf |-> buf, split |-> d.split]]

\* one poll of the future greetd_decode(&mut stream) with the bytes avail at
\* hand: done tells that it returned res, d is the future if it is Pending,
\* used the number of bytes it took from avail
PollDecode(d, avail, eof) ==
    LET len_buf == IF d.pc = "len" THEN ReadExact(d.len_buf, 4, avail)
                   ELSE d.len_buf
        used1 == Len(len_buf) - Len(d.len_buf)
        rest == SubSeq(avail, used1 + 1, Len(avail))
    IN  IF Len(len_buf) < 4
        THEN [done |-> eof, res |-> Err("eof"), used |-> used1,
              d |-> [pc |-> "len", len_buf |-> len_buf, buf |-> <<>>,
                     split |-> d.split \/ len_buf # <<>>]]
        ELSE LET len == FromNeBytes(len_buf)
                 buf == ReadExact(d.buf, len, rest)
                 used2 == Len(buf) - Len(d.buf)
             IN  IF Len(buf) < len
                 THEN [done |-> eof, res |-> Err("eof"), used |-> used1 + used2,
                       d |-> [pc |-> "payload", len_buf |-> len_buf,
                              buf |-> buf, split |-> d.split]]
                 ELSE [done |-> TRUE, res |-> greetd_decode_impl(buf),
                       used |-> used1 + used2,
                       d |-> [pc |-> "payload", len_buf |-> len_buf,
                              buf |-> buf, split |-> d.split]]

\* select! polls greetd_decode.  Pending: the future keeps what it has read.
\* Ok(res): tx.send_async(Msg::GreetdRes(res)) and the loop starts a new
\* future.  Err: the pattern Ok(res) does not match, the branch is disabled
\* until the other branch completes.
DecodePoll ==
    /\ status = "running"
    /\ conn = "connected"
    /\ wr.pc = "select"
    /\ dec.pc # "disabled"
    /\ rd # <<>> \/ AtEof
    /\ LET p == PollDecode(dec, rd, AtEof)
       IN  /\ rd' = SubSeq(rd, p.used + 1, Len(rd))
           /\ IF ~p.done
              THEN /\ dec' = p.d
                   /\ UNCHANGED <<msg_q, h_decoded>>
              ELSE /\ h_decoded' = Append(h_decoded,
                        [res |-> IF p.res = Err("eof") /\ sk_err
                                 THEN Err("reset") ELSE p.res,
                         buf |-> p.d.buf,
                         start |-> NRead - Len(dec.len_buf) - Len(dec.buf),
                         used |-> Len(p.d.len_buf) + Len(p.d.buf),
                         split |-> p.d.split])
                   /\ IF p.res.ok
                      THEN /\ msg_q' = Append(msg_q, MsgGreetdRes(p.res.res))
                           /\ dec' = NewDecode
                      ELSE /\ msg_q' = msg_q
                           /\ dec' = [NewDecode EXCEPT !.pc = "disabled"]
           /\ sk_err' = (sk_err /\ ~(p.done /\ p.res = Err("eof")))
    /\ UNCHANGED <<app, req_q, conn, status, peer_out, peer_closed, wr,
                   wire_out, h_sent, h_taken>>

\* the write branch taking a Request while the write of the one before is
\* still under way
TakeRequest_WhileWriting ==
    /\ status = "running"
    /\ conn = "connected"
    /\ req_q # <<>>
    /\ req_q' = Tail(req_q)
    /\ h_taken' = Append(h_taken, Head(req_q))
    /\ wr' = [pc |-> "write_all", msg |-> RequestToString(Head(req_q)),
              wbuf |-> wr.wbuf]
    /\ dec' = NewDecode
    /\ UNCHANGED <<app, msg_q, conn, status, peer_out, rd, peer_closed, sk_err,
                   wire_out, h_sent, h_decoded>>

\* select! completes req_rx.recv_async() with Ok(req): the greetd_decode
\* future of this select! is dropped with what it has read, and greetd_write
\* serializes req
TakeRequest ==
    /\ status = "running"
    /\ conn = "connected"
    /\ wr.pc = "select"
    /\ req_q # <<>>
    /\ req_q' = Tail(req_q)
    /\ h_taken' = Append(h_taken, Head(req_q))
    /\ wr' = [pc |-> "write_all", msg |-> RequestToString(Head(req_q)),
              wbuf |-> <<>>]
    /\ dec' = NewDecode
    /\ UNCHANGED <<app, msg_q, conn, status, peer_out, rd, peer_closed, sk_err,
                   wire_out, h_sent, h_decoded>>

\* greetd_write: write_all of the length prefix and write_all of the text,
\* both into the BufWriter
WriteAll ==
    /\ status = "running"
    /\ wr.pc = "write_all"
    /\ wr' = [wr EXCEPT !.pc = "flush", !.wbuf = wr.wbuf \o Framed(wr.msg)]
    /\ UNCHANGED <<app, req_q, msg_q, conn, status, peer_out, rd, peer_closed, sk_err,
                   dec, wire_out, h_sent, h_decoded, h_taken>>

\* greetd_write: flush.  The socket takes the first k bytes of the BufWriter,
\* any number of them, and flush is Pending while bytes are left;
\* when it is empty greetd_write returns and the loop goes back to select!.
\* Writing to a socket the daemon has closed fails, and greetd_task returns
\* the error, which init's effect sends as Msg::Error.
Flush(k) ==
    /\ status = "running"
    /\ wr.pc = "flush"
    /\ k \in 1..Len(wr.wbuf)
    /\ IF peer_closed
       THEN /\ conn' = "returned"
            /\ msg_q' = Append(msg_q, MsgError)
            /\ wr' = [wr EXCEPT !.pc = "returned"]
            /\ wire_out' = wire_out
       ELSE /\ wire_out' = wire_out \o SubSeq(wr.wbuf, 1, k)
            /\ wr' = IF k = Len(wr.wbuf) THEN InSelect
                     ELSE [wr EXCEPT !.wbuf = SubSeq(wr.wbuf, k + 1, Len(wr.wbuf))]
            /\ UNCHANGED <<conn, msg_q>>
    /\ UNCHANGED <<app, req_q, status, peer_out, rd, peer_closed, sk_err, dec,
                   h_sent, h_decoded, h_taken>>

NextWire ==
    \/ \E req \in WireRequests :
           Len(h_taken) + Len(req_q) < MaxWireReqs /\ SendRequest(req)
    \/ \E payload \in WirePayloads : DaemonWrite(payload)
    \/ Arrive
    \/ DaemonClose
    \/ DecodePoll
    \/ TakeRequest
    \/ WriteAll
    \/ \E k \in 1..Len(wr.wbuf) : Flush(k)
    \/ UpdateError

SpecWire == InitWire /\ [][NextWire]_vars


\* greetd_decode alone: the daemon's frames arrive byte by byte and the
\* future is polled at any time, never dropped
NextDecode ==
    \/ \E payload \in WirePayloads : DaemonWrite(payload)
    \/ Arrive
    \/ DaemonClose
    \/ DecodePoll

SpecDecode == InitWire /\ [][NextDecode]_vars

\* the write branch alone: no frame from the daemon
NextWrite ==
    \/ \E req \in WireRequests : SendRequest(req)
    \/ DaemonClose
    \/ TakeRequest
    \/ WriteAll
    \/ \E k \in 1..Len(wr.wbuf) : Flush(k)
    \/ UpdateError

SpecWrite == InitWire /\ [][NextWrite]_vars

(***************************************************************************)
(* The framing of greetd_write against the framing of greetd_decode: texts *)
(* are framed into one byte stream, which is read back frame by frame.     *)
(***************************************************************************)
\* texts framed in one run
MaxStream == 3

Blank(n) == [i \in 1..n |-> 32]
\* the texts: empty, a Request, a Response, invalid UTF-8, and one whose
\* length needs the second byte of the prefix
FramingTexts ==
    {<<>>, RequestToString(CreateSession("Bingus")), ResponseToString(Success),
     <<255>>, Blank(300)}

\* greetd_write's write_all calls for the text msg, onto the stream rd
FrameWrite(msg) ==
    /\ Len(h_sent) < MaxStream
    /\ rd' = rd \o Framed(msg)
    /\ h_sent' = Append(h_sent, msg)
    /\ UNCHANGED <<app, req_q, msg_q, conn, status, peer_out, peer_closed, sk_err, dec,
                   wr, wire_out, h_decoded, h_taken>>

\* greetd_decode on the stream rd
FrameRead ==
    /\ rd # <<>>
    /\ LET f == ReadFrame(rd)
       IN  /\ ~f.eof
           /\ rd' = SubSeq(rd, f.used + 1, Len(rd))
           /\ h_decoded' = Append(h_decoded,
                  [res |-> greetd_decode(rd).res, buf |-> f.buf,
                   start |-> NRead, used |-> f.used, split |-> FALSE])
    /\ UNCHANGED <<app, req_q, msg_q, conn, status, peer_out, peer_closed, sk_err, dec,
                   wr, wire_out, h_sent, h_taken>>

NextFraming ==
    \/ \E msg \in FramingTexts : FrameWrite(msg)
    \/ FrameRead

SpecFraming == InitWire /\ [][NextFraming]_vars

(***************************************************************************)
(* The JSON texts of serde against the texts of the protocol: values are   *)
(* given to serde_json::to_string, texts to greetd_decode_impl.  h_taken   *)
(* holds the values serialized, h_sent their texts, h_decoded the calls of *)
(* greetd_decode_impl.                                                     *)
(***************************************************************************)
\* calls in one run
MaxJson == 2

\* the values serialized
JsonValues ==
    {CreateSession("Bingus"), PostAuthMessageResponse(Some("1234")),
     PostAuthMessageResponse(None), StartSession(<<"/bin/sh">>, <<>>),
     CancelSession,
     Success, Error("AuthError", "bad password"),
     AuthMessage("Secret", "Password:")}

\* serde_json::to_string of a Request or a Response
to_string(v) ==
    IF v.type \in {"success", "error", "auth_message"}
    THEN ResponseToString(v) ELSE RequestToString(v)

\* the name the greetd protocol gives a variant of AuthMessageType or
\* ErrorType on the wire
WireName(variant) ==
    CASE variant = "AuthError" -> "auth_error"
      [] variant = "Error" -> "error"
      [] variant = "Visible" -> "visible"
      [] variant = "Secret" -> "secret"
      [] variant = "Info" -> "info"

\* the text of a Response as the greetd protocol writes it
ProtocolText(res) ==
    CASE res.type = "success" ->
            JsonObject(<<JsonField("type", JsonStr(res.type))>>)
      [] res.type = "error" ->
            JsonObject(<<JsonField("type", JsonStr(res.type)),
                         JsonField("error_type", JsonStr(WireName(res.error_type))),
                         JsonField("description", JsonStr(res.description))>>)
      [] res.type = "auth_message" ->
            JsonObject(<<JsonField("type", JsonStr(res.type)),
                         JsonField("auth_message_type",
                                   JsonStr(WireName(res.auth_message_type))),
                         JsonField("auth_message", JsonStr(res.auth_message))>>)

\* the texts decoded: what serde writes for a Response, and what the
\* protocol writes for it
JsonTexts ==
    {ResponseToString(res) : res \in Response}
    \cup {ProtocolText(res) : res \in Response}

JsonWrite(v) ==
    /\ Len(h_taken) + Len(h_decoded) < MaxJson
    /\ h_taken' = Append(h_taken, v)
    /\ h_sent' = Append(h_sent, to_string(v))
    /\ UNCHANGED <<app, req_q, msg_q, conn, status, peer_out, rd, peer_closed, sk_err,
                   dec, wr, wire_out, h_decoded>>

JsonRead(text) ==
    /\ Len(h_taken) + Len(h_decoded) < MaxJson
    /\ h_decoded' = Append(h_decoded,
           [res |-> greetd_decode_impl(text), buf |-> text,
            start |-> 0, used |-> Len(text), split |-> FALSE])
    /\ UNCHANGED <<app, req_q, msg_q, conn, status, peer_out, rd, peer_closed, sk_err,
                   dec, wr, wire_out, h_sent, h_taken>>

NextJson ==
    \/ \E v \in JsonValues : JsonWrite(v)
    \/ \E text \in JsonTexts : JsonRead(text)

SpecJson == InitWire /\ [][NextJson]_vars

(***************************************************************************)
(* Properties.                                                             *)
(***************************************************************************)
\* update takes Msg::GreetdRes(res) in this step
ResStep(res) ==
    /\ status = "running"
    /\ msg_q # <<>>
    /\ Head(msg_q).msg = "GreetdRes"
    /\ Head(msg_q).res = res
    /\ msg_q' = Tail(msg_q)

\* update enqueues a Request of the given type in this step
Enqueues(type) ==
    /\ Len(req_q') = Len(req_q) + 1
    /\ req_q'[Len(req_q')].type = type

\* update takes Msg::SubmitLogin in this step: no other arm sends CreateSession
SubmitLoginStep == Enqueues("create_session")

\* the last protocol step was Msg::GreetdRes, and it did not panic
AfterRes == last_step.ev = "GreetdRes" /\ status # "todo"
LastRes == last_response[1]

InAttempt(tag) == tag \in {"CreatedSession", "PickingDesktop"}
IsNotice(res) == res.type = "auth_message" /\ res.auth_message_type # "Secret"
IsSecret(res) == res.type = "auth_message" /\ res.auth_message_type = "Secret"

\* C1: while the connection exists, update has at most one Request
\* unanswered: it enqueues no second Request before a Msg::GreetdRes.
C1_OneRequestInFlight == conn = "connected" => unanswered <= 1

\* C2: FormState::update never panics: no Msg::GreetdRes step ends in todo!().
C2_UpdateNeverPanics == status # "todo"

\* C3: an Error response in CreatedSession or PickingDesktop moves the phase
\* to LoginFailed and enqueues no Request; SubmitLogin in LoginFailed moves
\* the phase to CreatedSession.
C3_ErrorThenRetry ==
    [][ /\ \A res \in Response :
              (ResStep(res) /\ res.type = "error" /\ InAttempt(form_state.tag))
              => /\ form_state'.tag = "LoginFailed"
                 /\ req_q' = req_q
                 /\ status' = "running"
        /\ (SubmitLoginStep /\ form_state.tag = "LoginFailed")
           => form_state' = CreatedSession ]_vars

C3_Witness ==
    /\ last_step.ev = "SubmitLogin"
    /\ last_step.before.tag = "LoginFailed"
    /\ form_state = CreatedSession
    /\ last_response # None
    /\ LastRes.type = "error"

\* C4: in LoginFailed no Response changes the phase or enqueues a Request.
C4_FailedIsTerminal ==
    [][ \A res \in Response :
            (ResStep(res) /\ form_state.tag = "LoginFailed")
            => /\ form_state' = form_state
               /\ req_q' = req_q ]_vars

\* C5: StartSession is enqueued only in PickingDesktop, in an attempt that
\* CreateSession opened and that no Error response has failed since.
C5_StartOnlyAfterAuth ==
    last_step.ev = "StartShell"
    => /\ last_step.before.tag = "PickingDesktop"
       /\ attempt = "open"

\* C6: every PostAuthMessageResponse is enqueued by the update step that
\* takes an AuthMessage response, and the number of PostAuthMessageResponse
\* requests enqueued never exceeds the number of AuthMessage responses
\* delivered to update.
C6_NoReplyBeforePrompt ==
    /\ [](n_post <= n_auth)
    /\ [][ Enqueues("post_auth_message_response")
           => \E res \in Response :
                  ResStep(res) /\ res.type = "auth_message" ]_vars

C6_Witness ==
    /\ AfterRes
    /\ LastRes.type = "auth_message"
    /\ unanswered = 1
    /\ n_post = n_auth
    /\ n_post >= 1

\* C7: AuthMessage{Secret} in CreatedSession keeps CreatedSession and
\* enqueues exactly one PostAuthMessageResponse carrying the password field
\* as it is at that step.
C7_SecretPrompt ==
    [][ \A res \in Response :
            (ResStep(res) /\ IsSecret(res) /\ form_state = CreatedSession)
            => /\ form_state' = CreatedSession
               /\ status' = "running"
               /\ req_q' = Append(req_q,
                      PostAuthMessageResponse(Some(fields.Password))) ]_vars

C7_Witness ==
    /\ AfterRes
    /\ IsSecret(LastRes)
    /\ last_step.before = CreatedSession
    /\ form_state = CreatedSession
    /\ fields.Password = "1234"
    /\ fields.Username = ""
    /\ req_q = <<PostAuthMessageResponse(Some("1234"))>>

\* C8: every AuthMessage that is not Secret, received in CreatedSession,
\* keeps the phase and is acknowledged with one PostAuthMessageResponse.
C8_NoticeAcknowledged ==
    [][ \A res \in Response :
            (ResStep(res) /\ IsNotice(res) /\ form_state = CreatedSession)
            => /\ form_state' = form_state
               /\ Enqueues("post_auth_message_response") ]_vars

\* C9: the run SubmitLogin, AuthMessage{Secret}, Success, Success from the
\* initial Idle ends in PickingDesktop, and along it update never has more
\* than one Request enqueued since the last Response.
C9_ScenarioReachesPicking ==
    /\ scen = Scenario => form_state = PickingDesktop
    /\ scen # Off => unanswered <= 1

C9_Witness == scen = Scenario /\ form_state = PickingDesktop

\* C10: in CreatedSession and PickingDesktop the caller can cancel: a step
\* that enqueues CancelSession and leaves the phase Idle is possible.
CancelStep ==
    /\ Next
    /\ req_q' = Append(req_q, CancelSession)
    /\ form_state' = Idle

C10_CancelReturnsToIdle ==
    (status = "running" /\ InAttempt(form_state.tag)) => ENABLED CancelStep

\* C11: in Idle every Response is ignored: the phase stays Idle and no
\* Request is enqueued.
C11_IdleIgnoresResponses ==
    [][ \A res \in Response :
            (ResStep(res) /\ form_state = Idle)
            => /\ form_state' = Idle
               /\ req_q' = req_q
               /\ status' = "running" ]_vars

C11_Witness ==
    /\ AfterRes
    /\ last_step.before = Idle
    /\ form_state = Idle
    /\ last_response # None
    /\ req_q = <<>>

\* C12: a login of n Secret prompts followed by Success enqueues exactly n
\* PostAuthMessageResponse requests, one at each prompt, and ends in
\* PickingDesktop.
NPrompts(r) == Cardinality({i \in 1..Len(r) : r[i] = "secret"})

C12_AnyNumberOfPrompts ==
    (run # Off /\ run # <<>>)
    => /\ n_post = NPrompts(run)
       /\ run[Len(run)] = "secret" => (unanswered = 1 /\ form_state = CreatedSession)
       /\ run[Len(run)] = "SubmitLogin" => form_state = CreatedSession
       /\ run[Len(run)] = "success" => form_state = PickingDesktop

C12_Witness ==
    /\ run = <<"SubmitLogin", "secret", "secret", "success">>
    /\ n_post = 2
    /\ form_state = PickingDesktop

\* the run ends on the Msg::Quit that the effect of StartShell sent
QuitSignalStep ==
    /\ status = "running"
    /\ status' = "quit"
    /\ msg_q # <<>>
    /\ Head(msg_q) = MsgQuit
    /\ msg_q' = Tail(msg_q)

\* C13: the program does not finish before the daemon has answered the
\* StartSession request: the Msg::Quit of StartShell ends the run only
\* after a Success response.
C13_WaitsForStartAnswer ==
    [][QuitSignalStep
       => (last_step.ev = "GreetdRes" /\ LastRes.type = "success")]_vars

\* C18: without a stream the task keeps running, writes nothing, reads
\* nothing, and sends update neither Msg::GreetdRes nor Msg::Error.
C18_DegradedDropsSilently ==
    /\ [](conn = "absent"
          => /\ sock_out = <<>>
             /\ sock_in = <<>>
             /\ last_response = None
             /\ status \in {"running", "quit"}
             /\ \A i \in 1..Len(msg_q) : msg_q[i] = MsgQuit)
    /\ [][conn = "absent" => conn' = "absent"]_vars

C18_Witness ==
    /\ conn = "absent"
    /\ unanswered = 2
    /\ req_q = <<>>
    /\ sock_out = <<>>

(***************************************************************************)
(* The transport claims.                                                   *)
(***************************************************************************)
\* the Responses greetd_task has sent to update, in order
Delivered ==
    LET got == SelectSeq(msg_q, LAMBDA m : m.msg = "GreetdRes")
    IN  [i \in 1..Len(got) |-> got[i].res]
\* the Responses of the frames the daemon wrote, in order
Expected ==
    LET good == SelectSeq(h_sent, LAMBDA payload : greetd_decode_impl(payload).ok)
    IN  [i \in 1..Len(good) |-> greetd_decode_impl(good[i]).res]
\* the frames of a sequence of Requests
FramesOf(reqs) ==
    Concat([i \in 1..Len(reqs) |-> Framed(RequestToString(reqs[i]))])
IsPrefix(a, b) == Len(a) <= Len(b) /\ a = SubSeq(b, 1, Len(a))

\* C14: every Response frame the daemon wrote is delivered to update exactly
\* once and in order: once all its bytes have been read, the Responses
\* delivered are the Responses written.
C14_FramesDeliveredOnceInOrder ==
    (peer_out = <<>> /\ rd = <<>>) => Delivered = Expected

\* C15: Requests go onto the socket in the order of the channel, none lost
\* or duplicated, and each frame is written completely before the next
\* Request is taken.
C15_RequestsWrittenInOrder ==
    /\ [](/\ IsPrefix(wire_out, FramesOf(h_taken))
          /\ wr.pc = "select" => wire_out = FramesOf(h_taken)
          /\ wr.pc = "flush" => wire_out \o wr.wbuf = FramesOf(h_taken))
    /\ [][h_taken' # h_taken
          => /\ wr.pc = "select" /\ wire_out = FramesOf(h_taken)
             /\ req_q # <<>>
             /\ h_taken' = Append(h_taken, Head(req_q))
             /\ req_q' = Tail(req_q)]_vars

C15_Witness ==
    /\ Len(h_taken) = 2
    /\ h_taken[1] # h_taken[2]
    /\ wr.pc = "select"
    /\ ~peer_closed
    /\ wire_out = Framed(RequestToString(h_taken[1]))
                  \o Framed(RequestToString(h_taken[2]))

\* C16: after a greetd_decode that failed on a frame no later greetd_decode
\* delivers a Response.
C16_DecodeErrorIsFatal ==
    \A i, j \in 1..Len(h_decoded) :
        (i < j /\ ~h_decoded[i].res.ok) => ~h_decoded[j].res.ok

\* C17: when the daemon has closed and the write of a Request has failed,
\* the program is still running and its phase is LoginFailed.
C17_LostTransportEndsInFailed ==
    (peer_closed /\ conn = "returned" /\ msg_q = <<>>)
    => (status = "running" /\ form_state.tag = "LoginFailed")

\* C19: a greetd_decode that read its frame over any number of polls returns
\* what greetd_decode returns on the same bytes in one piece, and has taken
\* the same number of bytes, 4 + len for a whole frame; so every frame that
\* has been read has produced its result.
C19_ChunkedDecodeIsDecode ==
    /\ \A i \in 1..Len(h_decoded) :
          LET e == h_decoded[i]
              whole == greetd_decode(SubSeq(Stream, e.start + 1, Len(Stream)))
          IN  /\ e.res = whole.res
              /\ e.used = whole.used
              /\ e.res # Err("eof") => e.used = 4 + Len(e.buf)
    /\ (peer_out = <<>> /\ rd = <<>>) => Len(h_decoded) >= Len(h_sent)

C19_Witness ==
    \E i \in 1..Len(h_decoded) :
        /\ h_decoded[i].split
        /\ h_decoded[i].res = Ok(Success)
        /\ h_decoded[i].start > 0

\* C20: the stream of frames greetd_write's framing makes of a sequence of
\* texts is split by greetd_decode's framing into the same texts, and the
\* bytes not yet read are exactly the frames of the texts not yet read.
C20_FramingRoundTrip ==
    /\ Len(h_decoded) <= Len(h_sent)
    /\ \A i \in 1..Len(h_decoded) :
          /\ h_decoded[i].buf = h_sent[i]
          /\ h_decoded[i].used = 4 + Len(h_sent[i])
    /\ rd = Concat([i \in 1..(Len(h_sent) - Len(h_decoded)) |->
                       Framed(h_sent[Len(h_decoded) + i])])

C20_Witness ==
    /\ Len(h_decoded) = 3
    /\ rd = <<>>
    /\ h_decoded[1].buf = Blank(300)
    /\ h_decoded[2].buf = <<>>
    /\ h_decoded[3].buf = ResponseToString(Success)

\* C23: a LoginFailed phase holds the error_type and the description of the
\* Error response that caused it, which is the last Response delivered, for
\* as long as the phase is LoginFailed.
C23_FailureVerbatim ==
    form_state.tag = "LoginFailed"
    => /\ last_response # None
       /\ LastRes.type = "error"
       /\ form_state = LoginFailed(LastRes.error_type, LastRes.description)

C23_Witness ==
    /\ form_state = LoginFailed("AuthError", "bad password")
    /\ last_step.ev = "GreetdRes"
    /\ last_step.before = PickingDesktop
    /\ last_response = Some(Error("AuthError", "bad password"))

\* C24: when greetd_task has returned the connect error it has taken no
\* Request from the channel, written nothing and delivered no Response, and
\* Msg::Error is on its way to update or has made it panic.
C24_ConnectFailureIsFatal ==
    (conn = "returned" /\ wr.pc # "returned")
    => /\ Len(req_q) = unanswered
       /\ sock_out = <<>>
       /\ sock_in = <<>>
       /\ last_response = None
       /\ \A i \in 1..Len(msg_q) : msg_q[i].msg # "GreetdRes"
       /\ status = "panic" \/ \E i \in 1..Len(msg_q) : msg_q[i] = MsgError

C24_Witness ==
    /\ conn = "returned"
    /\ wr.pc # "returned"
    /\ status = "panic"
    /\ Len(req_q) = 2
    /\ unanswered = 2

\* C25: every Msg::GreetdRes(res) that update takes, in whatever phase,
\* leaves last_response = Some(res), and no other step changes
\* last_response.
C25_LastResponseTracksDelivery ==
    [][ /\ \A res \in Response : ResStep(res) => last_response' = Some(res)
        /\ last_response' # last_response => \E res \in Response : ResStep(res)
      ]_vars

\* C26: Msg::SubmitLogin enqueues CreateSession only from Idle or
\* LoginFailed, never in an attempt that is still open.
C26_CreateOnlyOutsideAttempt ==
    (last_step.ev = "SubmitLogin" /\ req_q # <<>>
        /\ req_q[Len(req_q)].type = "create_session")
    => last_step.before.tag \in {"Idle", "LoginFailed"}

\* C27: the Msg::Quit of StartShell does not end the run while the
\* StartSession request is still in the channel req_q or inside
\* greetd_write, not yet written to the socket.
C27_StartSessionWrittenBeforeQuit ==
    [][QuitSignalStep
       => /\ \A i \in 1..Len(req_q) : req_q[i].type # "start_session"
          /\ wr.pc = "flush"
             => h_taken[Len(h_taken)].type # "start_session"]_vars

\* C29: whenever the phase is PickingDesktop the focus is on the
\* DesktopPicker.
C29_PickingHasFocus ==
    form_state.tag = "PickingDesktop" => focus = "DesktopPicker"

\* C30: a step that changes a field (Msg::FieldUpdate) changes that one
\* field and nothing else of the Model, and a key press that changes the
\* focus (Msg::FocusOn) changes nothing else; neither enqueues a Request.
\* Msg::Nothing changes nothing at all: it is a stuttering step.
C30_InputOnlyMessages ==
    [][ /\ fields' # fields
           => /\ form_state' = form_state
              /\ last_response' = last_response
              /\ req_q' = req_q
              /\ focus' = focus
              /\ Cardinality({f \in DOMAIN fields : fields'[f] # fields[f]}) = 1
        /\ (focus' # focus /\ msg_q' = msg_q)
           => /\ form_state' = form_state
              /\ last_response' = last_response
              /\ req_q' = req_q
              /\ fields' = fields
      ]_vars

C30_Witness ==
    /\ form_state = CreatedSession
    /\ req_q = <<CreateSession("")>>
    /\ focus = "UsernameField"
    /\ fields.Username = "Bingus"
    /\ last_response = None

(***************************************************************************)
(* The texts of the protocol, byte by byte.                                *)
(***************************************************************************)
\* {"type":"create_session","username":"Bingus"}
TextCreateSession ==
    <<123, 34, 116, 121, 112, 101, 34, 58, 34, 99, 114, 101, 97, 116,
    101, 95, 115, 101, 115, 115, 105, 111, 110, 34, 44, 34, 117, 115,
    101, 114, 110, 97, 109, 101, 34, 58, 34, 66, 105, 110, 103, 117, 115,
    34, 125>>
\* {"type":"post_auth_message_response","response":"1234"}
TextPostAuthMessageResponse ==
    <<123, 34, 116, 121, 112, 101, 34, 58, 34, 112, 111, 115, 116, 95,
    97, 117, 116, 104, 95, 109, 101, 115, 115, 97, 103, 101, 95, 114,
    101, 115, 112, 111, 110, 115, 101, 34, 44, 34, 114, 101, 115, 112,
    111, 110, 115, 101, 34, 58, 34, 49, 50, 51, 52, 34, 125>>
\* {"type":"post_auth_message_response","response":null}
TextPostAuthMessageResponseNone ==
    <<123, 34, 116, 121, 112, 101, 34, 58, 34, 112, 111, 115, 116, 95,
    97, 117, 116, 104, 95, 109, 101, 115, 115, 97, 103, 101, 95, 114,
    101, 115, 112, 111, 110, 115, 101, 34, 44, 34, 114, 101, 115, 112,
    111, 110, 115, 101, 34, 58, 110, 117, 108, 108, 125>>
\* {"type":"start_session","command":["/bin/sh"],"env":[]}
TextStartSession ==
    <<123, 34, 116, 121, 112, 101, 34, 58, 34, 115, 116, 97, 114, 116,
    95, 115, 101, 115, 115, 105, 111, 110, 34, 44, 34, 99, 111, 109, 109,
    97, 110, 100, 34, 58, 91, 34, 47, 98, 105, 110, 47, 115, 104, 34, 93,
    44, 34, 101, 110, 118, 34, 58, 91, 93, 125>>
\* {"type":"cancel_session"}
TextCancelSession ==
    <<123, 34, 116, 121, 112, 101, 34, 58, 34, 99, 97, 110, 99, 101, 108,
    95, 115, 101, 115, 115, 105, 111, 110, 34, 125>>
\* {"type":"success"}
TextSuccess ==
    <<123, 34, 116, 121, 112, 101, 34, 58, 34, 115, 117, 99, 99, 101,
    115, 115, 34, 125>>
\* {"type":"error","error_type":"
TextErrorHead ==
    <<123, 34, 116, 121, 112, 101, 34, 58, 34, 101, 114, 114, 111, 114,
    34, 44, 34, 101, 114, 114, 111, 114, 95, 116, 121, 112, 101, 34, 58,
    34>>
\* ","description":"bad password"}
TextErrorTail ==
    <<34, 44, 34, 100, 101, 115, 99, 114, 105, 112, 116, 105, 111, 110,
    34, 58, 34, 98, 97, 100, 32, 112, 97, 115, 115, 119, 111, 114, 100,
    34, 125>>
\* {"type":"auth_message","auth_message_type":"
TextAuthMessageHead ==
    <<123, 34, 116, 121, 112, 101, 34, 58, 34, 97, 117, 116, 104, 95,
    109, 101, 115, 115, 97, 103, 101, 34, 44, 34, 97, 117, 116, 104, 95,
    109, 101, 115, 115, 97, 103, 101, 95, 116, 121, 112, 101, 34, 58,
    34>>
\* ","auth_message":"Password:"}
TextAuthMessageTail ==
    <<34, 44, 34, 97, 117, 116, 104, 95, 109, 101, 115, 115, 97, 103,
    101, 34, 58, 34, 80, 97, 115, 115, 119, 111, 114, 100, 58, 34, 125>>

\* the text a value of JsonValues must have: it starts with head and ends
\* with tail, and is head alone where whole is set
ExpectedText(v) ==
    CASE v = CreateSession("Bingus") ->
            [head |-> TextCreateSession, tail |-> <<>>, whole |-> TRUE]
      [] v = PostAuthMessageResponse(Some("1234")) ->
            [head |-> TextPostAuthMessageResponse, tail |-> <<>>, whole |-> TRUE]
      [] v = PostAuthMessageResponse(None) ->
            [head |-> TextPostAuthMessageResponseNone, tail |-> <<>>, whole |-> TRUE]
      [] v = StartSession(<<"/bin/sh">>, <<>>) ->
            [head |-> TextStartSession, tail |-> <<>>, whole |-> TRUE]
      [] v = CancelSession ->
            [head |-> TextCancelSession, tail |-> <<>>, whole |-> TRUE]
      [] v = Success ->
            [head |-> TextSuccess, tail |-> <<>>, whole |-> TRUE]
      [] v.type = "error" ->
            [head |-> TextErrorHead, tail |-> TextErrorTail, whole |-> FALSE]
      [] v.type = "auth_message" ->
            [head |-> TextAuthMessageHead, tail |-> TextAuthMessageTail,
             whole |-> FALSE]

IsSuffix(a, b) ==
    Len(a) <= Len(b) /\ a = SubSeq(b, Len(b) - Len(a) + 1, Len(b))

\* C21: a Response text with the protocol's snake_case names for the enum
\* values decodes to that Response, and serde writes those names.
C21_SnakeCaseEnumNames ==
    /\ \A i \in 1..Len(h_decoded) : \A res \in Response :
          h_decoded[i].buf = ProtocolText(res) => h_decoded[i].res = Ok(res)
    /\ \A i \in 1..Len(h_taken) :
          h_taken[i] \in Response => h_sent[i] = ProtocolText(h_taken[i])

\* C22: every Request and Response is written as an object whose first
\* member is "type" with the snake_case name of the variant, followed by the
\* fields in declared order under their declared names.
C22_TaggedObjects ==
    \A i \in 1..Len(h_taken) :
        LET e == ExpectedText(h_taken[i])
        IN  /\ IsPrefix(e.head, h_sent[i])
            /\ IsSuffix(e.tail, h_sent[i])
            /\ Len(h_sent[i]) >= Len(e.head) + Len(e.tail)
            /\ e.whole => h_sent[i] = e.head

C22_Witness ==
    /\ Len(h_taken) = 2
    /\ h_taken[1] = CreateSession("Bingus")
    /\ h_sent[1] = TextCreateSession
    /\ h_taken[2] = PostAuthMessageResponse(Some("1234"))
    /\ h_sent[2] = TextPostAuthMessageResponse

\* the n-th frame of the daemon has arrived completely
FrameReceived(n) ==
    /\ Len(h_sent) >= n
    /\ Len(h_sent) > n \/ peer_out = <<>>
\* every frame the daemon wrote holds a Response
AllResponses == \A i \in 1..Len(h_sent) : greetd_decode_impl(h_sent[i]).ok
\* the n-th Request update sent is on the socket
RequestWritten(n) ==
    /\ Len(h_taken) >= n
    /\ IsPrefix(FramesOf(SubSeq(h_taken, 1, n)), wire_out)

\* no step of greetd_task and no arrival is possible: a fair run can stay
\* in this state for ever
AtRest ==
    /\ ~ENABLED Arrive
    /\ ~ENABLED DecodePoll
    /\ ~ENABLED TakeRequest
    /\ ~ENABLED WriteAll
    /\ ~ENABLED (\E k \in 1..Len(wr.wbuf) : Flush(k))

\* C28: while the daemon has not closed, every Request update sends is
\* eventually written to the socket and every Response frame that has
\* arrived completely is eventually delivered to update: a state where the
\* task can take no step leaves no such Request unwritten and no such
\* frame undelivered.
C28_EventuallyWrittenAndDelivered ==
    (AtRest /\ ~peer_closed /\ conn = "connected" /\ AllResponses)
    => /\ \A n \in 1..(Len(h_taken) + Len(req_q)) : RequestWritten(n)
       /\ \A n \in 1..Len(h_sent) : FrameReceived(n) => Len(Delivered) >= n

TypeOK ==
    /\ form_state.tag \in {"Idle", "CreatedSession", "LoginFailed", "PickingDesktop"}
    /\ focus \in Focus
    /\ status \in {"running", "quit", "todo", "panic"}
    /\ conn \in {"init", "connected", "absent", "returned"}
    /\ dec.pc \in {"len", "payload", "garbage", "disabled"}
    /\ Len(dec.len_buf) <= 4
    /\ wr.pc \in {"select", "write_all", "flush", "returned"}
    /\ peer_closed \in BOOLEAN
    /\ sk_err \in BOOLEAN
    /\ sk_err => peer_closed
    /\ Len(sock_part) <= 1
    /\ \A i \in 1..Len(sock_in) : sock_in[i] \in Frames \cup {Torn}
    /\ \A i \in 1..Len(rd) : rd[i] \in 0..255
    /\ \A i \in 1..Len(wire_out) : wire_out[i] \in 0..255
    /\ Len(h_sent) <= MaxFrames \/ Len(h_sent) <= MaxStream
    /\ Len(h_taken) <= MaxReqs \/ Len(h_taken) <= MaxJson
       \/ Len(h_taken) <= MaxInputs
====
